---------------------------- MODULE Spec2Model ----------------------------
(***************************************************************************)
(* A model of the upload/analysis lifecycle of the VetFile backend:        *)
(* controllers/documentController.js with the two services it calls,       *)
(* services/documentProcessingService.js and services/openaiService.js.    *)
(*                                                                         *)
(* Node runs the handlers on one event loop.  A handler runs without       *)
(* interruption up to an await whose promise is settled by real I/O (a     *)
(* file read, a network call); other requests' handlers run only at such   *)
(* points.  Each action below is one such uninterrupted stretch.           *)
(***************************************************************************)
EXTENDS Integers, Sequences, FiniteSets, Bags, TLC

VARIABLES
    uploads,    \* the Map `uploads`: upload id -> Upload object
    analyses,   \* the Map `analyses`: analysis id -> Analysis object
    nextId,     \* source of uuidv4(): every id below it has been issued
    useMockAI,  \* process.env.USE_MOCK_AI === 'true'
    inflight,   \* the analyze requests in progress: a bag of handler frames
    last,       \* the latest response sent, of any handler
    provider,   \* what the OpenAI account holds: files, assistants, stores, runs
    calls,      \* the calls of openaiService.processDocumentFile in progress
    wizard,     \* the React state of VetFileApp in the browser
    poll        \* the wait-for-completion loop of processDocumentFile

\* The state of the controller, and the state its handlers have no access to.
controller == <<uploads, analyses, nextId, useMockAI, inflight, last>>
elsewhere == <<provider, calls, wizard, poll>>

vars == <<uploads, analyses, nextId, useMockAI, inflight, last, provider, calls, wizard,
          poll>>

---------------------------------------------------------------------------
(* Bounds of the model *)

MaxUploads == 1     \* uploads created
MaxAnalyze == 2     \* analyses stored or in progress
MaxCalls == 3       \* calls of processDocumentFile
MaxPolls == 3       \* sleeps of the wait-for-completion loop

---------------------------------------------------------------------------
(* JavaScript values.  A value that comes from JSON (the provider's answer, *)
(* a request body) carries its type, so that truthiness, property access on *)
(* null and Array.isArray behave as in JavaScript.  The controller's own    *)
(* objects (Upload, Analysis, FileRecord, responses) are records; a         *)
(* property such an object does not have is a field the record lacks.       *)

Undefined == [type |-> "undefined"]
JNull == [type |-> "null"]
Str(s) == [type |-> "string", str |-> s]
Num(n) == [type |-> "number", num |-> n]
Bool(b) == [type |-> "boolean", bool |-> b]
Arr(items) == [type |-> "array", items |-> items]
Obj(props) == [type |-> "object", props |-> props]

\* An object literal without properties.
NoProps == <<>>

Has(obj, field) == field \in DOMAIN obj

\* value.field on a JSON value that is neither null nor undefined.
Get(value, field) ==
    IF value.type = "object" /\ Has(value.props, field)
    THEN value.props[field]
    ELSE Undefined

\* value.field throws a TypeError on these.
IsNullish(value) == value.type \in {"undefined", "null"}

\* The truthiness JavaScript's `if` and `||` apply.
Truthy(value) ==
    CASE value.type = "undefined" -> FALSE
      [] value.type = "null" -> FALSE
      [] value.type = "boolean" -> value.bool
      [] value.type = "string" -> value.str # ""
      [] value.type = "number" -> value.num # 0
      [] OTHER -> TRUE

\* a || b
OrElse(a, b) == IF Truthy(a) THEN a ELSE b

\* obj.field = value, on one of the controller's objects
SetField(obj, field, value) ==
    [k \in (DOMAIN obj) \cup {field} |-> IF k = field THEN value ELSE obj[k]]

\* map.set(key, value)
MapSet(map, key, value) ==
    [k \in (DOMAIN map) \cup {key} |-> IF k = key THEN value ELSE map[k]]

\* new Date().toISOString(): a clock that never runs backwards.  The id counter
\* serves as that clock, so a timestamp tells which ids had been issued.
Now == nextId

---------------------------------------------------------------------------
(* Request inputs *)

\* Two entries of req.files as multer hands them to the controller.
PdfFile ==
    [originalname |-> "dd214.pdf", filename |-> "a.pdf", path |-> "uploads/a.pdf",
     size |-> 2048, mimetype |-> "application/pdf"]
PngFile ==
    [originalname |-> "scan.png", filename |-> "b.png", path |-> "uploads/b.png",
     size |-> 4096, mimetype |-> "image/png"]

\* A part of the multipart request that fileFilter turns away.
TxtFile ==
    [originalname |-> "notes.txt", filename |-> "c.txt", path |-> "uploads/c.txt",
     size |-> 512, mimetype |-> "text/plain"]

Pdf2File ==
    [originalname |-> "medical.pdf", filename |-> "d.pdf", path |-> "uploads/d.pdf",
     size |-> 8192, mimetype |-> "application/pdf"]

\* req.files of an upload request: no file, an image, an image and a PDF.
FilesInputs == {<<>>, <<PngFile>>, <<PngFile, PdfFile>>}

\* Uploads for the extraction: an image, and two PDFs around an image.
FilesExtract == {<<PngFile>>, <<PdfFile, PngFile, Pdf2File>>}

\* req.body of an upload request: the multipart text fields.  multer makes a
\* field sent once a string and a field sent several times an array.
UploadBodyInputs ==
    {NoProps, [documentType |-> Str("DD214")], [documentType |-> Str("")],
     [documentType |-> Arr(<<Str("DD214"), Str("Medical Record")>>)]}

\* The upload requests of the lifecycle specification: any files, one tag.
TaggedBodyInputs == {[documentType |-> Str("DD214")]}

\* An upload id no upload was ever stored under.
UnknownIds == {0}

---------------------------------------------------------------------------
(* The event loop *)

\* A frame of analyzeDocuments suspended at an await: its upload id and where
\* it is suspended.  pc is "extracting" while processDocuments waits for a
\* file read, "resuming" when processDocuments resolved without I/O and the
\* continuation is queued as a microtask, "provider" while the provider call
\* is out.  `reads` holds the PDF extractions that have finished, in the
\* order they finished: the file's index and what reading it gave.  Two
\* fields record history for the properties: `prior`, the analyses stored for
\* the upload when the request arrived, and `saw`, those stored for it by
\* other requests since.
Frame(uploadId, pc) ==
    [uploadId |-> uploadId, pc |-> pc,
     reads |-> <<>>,
     prior |-> {a \in DOMAIN analyses : analyses[a].uploadId = uploadId},
     saw |-> {}]

\* Microtasks run before the event loop takes the next request or I/O
\* completion: while a continuation is queued, nothing else runs.
Resuming == \E frame \in BagToSet(inflight) : frame.pc = "resuming"

\* The frames but one copy of `frame`.
Without(frame) == inflight (-) SetToBag({frame})

\* A frame after another request stored analysisId for the frame's upload.
Sees(frame, uploadId, analysisId) ==
    IF frame.uploadId = uploadId
    THEN [frame EXCEPT !.saw = @ \cup {analysisId}]
    ELSE frame

\* The frames of `bag`, each having seen analysisId stored for uploadId.
AllSee(bag, uploadId, analysisId) ==
    [g \in {Sees(f, uploadId, analysisId) : f \in DOMAIN bag} |->
        bag[CHOOSE f \in DOMAIN bag : Sees(f, uploadId, analysisId) = g]]

---------------------------------------------------------------------------
(* uploadDocuments *)

\* req.body.documentType || 'unknown'
DocumentTypeOf(body) ==
    OrElse(IF Has(body, "documentType") THEN body.documentType ELSE Undefined,
           Str("unknown"))

\* The FileRecord of the i-th file; its id is the i-th uuid after the upload's.
FileRecord(file, i, body) ==
    [id |-> nextId + i,
     originalName |-> file.originalname,
     filename |-> file.filename,
     path |-> file.path,
     size |-> file.size,
     mimetype |-> file.mimetype,
     documentType |-> DocumentTypeOf(body),
     uploadedAt |-> Now]

\* The client-facing view of a FileRecord.
FileView(f) ==
    [id |-> f.id, originalName |-> f.originalName, size |-> f.size,
     documentType |-> f.documentType]

\* uploadDocuments recording the files last to first.
UploadDocumentsReversed(files, body) ==
    /\ ~Resuming
    /\ IF Len(files) = 0
       THEN /\ last' = [op |-> "upload", code |-> 400, error |-> "No files uploaded"]
            /\ UNCHANGED <<uploads, nextId>>
       ELSE /\ Cardinality(DOMAIN uploads) < MaxUploads
            /\ LET uploadId == nextId
                   records == [i \in 1..Len(files) |->
                                  FileRecord(files[Len(files) + 1 - i], i, body)]
               IN  /\ uploads' = MapSet(uploads, uploadId,
                                    [id |-> uploadId, files |-> records,
                                     status |-> "uploaded", uploadedAt |-> Now])
                   /\ last' = [op |-> "upload", code |-> 200,
                               message |-> "Files uploaded successfully",
                               uploadId |-> uploadId,
                               files |-> [i \in 1..Len(files) |-> FileView(records[i])]]
            /\ nextId' = nextId + 1 + Len(files)
    /\ UNCHANGED <<analyses, useMockAI, elsewhere, inflight>>

\* uploadDocuments without the test of lines 17-19.
UploadDocumentsUnchecked(files, body) ==
    /\ ~Resuming
    /\ Cardinality(DOMAIN uploads) < MaxUploads
    /\ LET uploadId == nextId
           records == [i \in 1..Len(files) |-> FileRecord(files[i], i, body)]
       IN  /\ uploads' = MapSet(uploads, uploadId,
                            [id |-> uploadId, files |-> records,
                             status |-> "uploaded", uploadedAt |-> Now])
           /\ last' = [op |-> "upload", code |-> 200,
                       message |-> "Files uploaded successfully",
                       uploadId |-> uploadId,
                       files |-> [i \in 1..Len(files) |-> FileView(records[i])]]
    /\ nextId' = nextId + 1 + Len(files)
    /\ UNCHANGED <<analyses, useMockAI, elsewhere, inflight>>

UploadDocuments(files, body) ==
    /\ ~Resuming
    /\ IF Len(files) = 0
       THEN /\ last' = [op |-> "upload", code |-> 400, error |-> "No files uploaded"]
            /\ UNCHANGED <<uploads, nextId>>
       ELSE /\ Cardinality(DOMAIN uploads) < MaxUploads
            /\ LET uploadId == nextId
                   records == [i \in 1..Len(files) |-> FileRecord(files[i], i, body)]
               IN  /\ uploads' = MapSet(uploads, uploadId,
                                    [id |-> uploadId, files |-> records,
                                     status |-> "uploaded", uploadedAt |-> Now])
                   /\ last' = [op |-> "upload", code |-> 200,
                               message |-> "Files uploaded successfully",
                               uploadId |-> uploadId,
                               files |-> [i \in 1..Len(files) |-> FileView(records[i])]]
            /\ nextId' = nextId + 1 + Len(files)
    /\ UNCHANGED <<analyses, useMockAI, elsewhere, inflight>>

---------------------------------------------------------------------------
(* routes/documentRoutes.js: POST /upload, and the requests callers build *)

allowedTypes == {"application/pdf", "image/jpeg", "image/png", "image/jpg"}

fileFilter(file) == file.mimetype \in allowedTypes

InvalidFileType == "Invalid file type. Only PDF, JPEG, and PNG files are allowed."

\* server.js lines 91-99, for an Error that carries no status property, as
\* the one fileFilter creates.
ErrorMiddleware(message) ==
    [code |-> 500, error |-> [message |-> message, status |-> 500]]

\* upload.array('documents', 10), then the controller.  multer hands the
\* first error of fileFilter to next(); the controller is not called.
UploadRoute(files, body) ==
    IF \E i \in DOMAIN files : ~fileFilter(files[i])
    THEN /\ ~Resuming
         /\ last' = [op |-> "upload"] @@ ErrorMiddleware(InvalidFileType)
         /\ UNCHANGED <<uploads, analyses, nextId, useMockAI, elsewhere, inflight>>
    ELSE UploadDocuments(files, body)

\* What a caller wants uploaded: files, each with its tag or without one.
UploadPicks ==
    {<<>>,
     <<[file |-> PngFile]>>,
     <<[file |-> PngFile, documentType |-> "DD214"]>>,
     <<[file |-> PngFile, documentType |-> "DD214"],
       [file |-> PdfFile, documentType |-> "Medical Record"]>>,
     <<[file |-> TxtFile, documentType |-> "DD214"]>>}

FilesOf(picks) == [i \in DOMAIN picks |-> picks[i].file]

\* The tags of the picks that have one, in order.
TagsOf(picks) ==
    LET Tagged(pick) == Has(pick, "documentType")
        tagged == SelectSeq(picks, Tagged)
    IN  [i \in DOMAIN tagged |-> Str(tagged[i].documentType)]

\* req.body after `field` was appended once per tag.
MultipartBody(field, tags) ==
    CASE Len(tags) = 0 -> NoProps
      [] Len(tags) = 1 -> (field :> tags[1])
      [] OTHER -> (field :> Arr(tags))

\* A caller of the API sending documentType per file.
ApiBody(picks) == MultipartBody("documentType", TagsOf(picks))

\* VetFileApp.jsx uploadFiles, lines 88-94.
ClientBody(picks) == MultipartBody("documentTypes", TagsOf(picks))

---------------------------------------------------------------------------
(* Analysis payloads *)

\* One claim candidate of a payload.
Claim(condition, description, evidence, cfrReference, score, category, presumed, primary) ==
    Obj([condition |-> condition, description |-> description,
         evidence |-> evidence, cfrReference |-> cfrReference,
         confidenceScore |-> score, category |-> category,
         isPresumed |-> presumed, isPrimary |-> primary])

getMockAnalysis ==
    Obj([veteranInfo |->
            Obj([name |-> Str("John A. Smith"),
                 serviceNumber |-> Str("123-45-6789"),
                 branch |-> Str("U.S. Army"),
                 serviceStartDate |-> Str("2008-06-15"),
                 serviceEndDate |-> Str("2016-08-22"),
                 rank |-> Str("E-5/Sergeant"),
                 dischargeType |-> Str("Honorable")]),
         potentialClaims |->
            Arr(<<Claim(Str("Post-Traumatic Stress Disorder (PTSD)"),
                        Str("Combat-related PTSD"),
                        Arr(<<Str("Combat deployment to Afghanistan"),
                              Str("Combat Infantry Badge indicates combat experience"),
                              Str("Medical record mentions anxiety symptoms")>>),
                        Str("38 CFR 4.130, DC 9411"), Num(85), Str("mental"),
                        Bool(FALSE), Bool(TRUE)),
                  Claim(Str("Tinnitus"),
                        Str("Ringing in the ears due to combat noise exposure"),
                        Arr(<<Str("Infantry MOS with exposure to weapons fire"),
                              Str("Combat deployment with likely noise exposure")>>),
                        Str("38 CFR 4.87, DC 6260"), Num(80), Str("physical"),
                        Bool(FALSE), Bool(TRUE)),
                  Claim(Str("Lumbar Strain"),
                        Str("Chronic lower back pain due to carrying heavy equipment"),
                        Arr(<<Str("Infantry MOS requiring carrying heavy loads"),
                              Str("Multiple deployments with combat gear")>>),
                        Str("38 CFR 4.71a, DC 5237"), Num(70), Str("physical"),
                        Bool(FALSE), Bool(TRUE))>>),
         serviceInfo |->
            Obj([deployments |-> Arr(<<Str("Afghanistan (2012-2013)"),
                                       Str("Iraq (2009-2010)")>>),
                 mos |-> Arr(<<Str("11B Infantry")>>),
                 combatExperience |-> Bool(TRUE),
                 awardsDecorations |-> Arr(<<Str("Combat Infantry Badge"),
                                             Str("Army Commendation Medal")>>),
                 incidents |-> Arr(<<Str("Engaged in firefight on 2013-03-15")>>)]),
         recommendations |->
            Obj([additionalEvidence |->
                    Arr(<<Str("Consider obtaining buddy statements from fellow soldiers"),
                          Str("Request complete medical records from VA"),
                          Str("Schedule VA C&P exam for PTSD")>>),
                 priorityClaims |->
                    Arr(<<Str("Post-Traumatic Stress Disorder (PTSD)"),
                          Str("Tinnitus")>>)])])

generateFallbackAnalysis ==
    Obj([veteranInfo |->
            Obj([name |-> Str("Unable to extract"),
                 serviceNumber |-> Str("Unable to extract"),
                 branch |-> Str("Unable to extract"),
                 serviceStartDate |-> JNull,
                 serviceEndDate |-> JNull,
                 rank |-> Str("Unable to extract"),
                 dischargeType |-> Str("Unable to extract")]),
         potentialClaims |->
            Arr(<<Claim(Str("Analysis Error"),
                        Str("There was an error analyzing your documents."),
                        Arr(<<Str("Error processing document content")>>),
                        JNull, Num(0), Str("other"), Bool(FALSE), Bool(TRUE))>>),
         serviceInfo |->
            Obj([deployments |-> Arr(<<>>),
                 mos |-> Arr(<<>>),
                 combatExperience |-> Bool(FALSE),
                 awardsDecorations |-> Arr(<<>>),
                 incidents |-> Arr(<<>>)]),
         recommendations |->
            Obj([additionalEvidence |->
                    Arr(<<Str("Try uploading clearer copies of your documents"),
                          Str("Include both your DD214 and medical records if available")>>),
                 priorityClaims |-> Arr(<<>>)])])

\* An analysis in the format the prompt asks the provider for: two candidates,
\* the second a secondary condition.
ExtractedAnalysis ==
    Obj([veteranInfo |->
            Obj([name |-> Str("DOE, JANE Q"),
                 serviceNumber |-> Str("Not found in document"),
                 branch |-> Str("U.S. Navy"),
                 serviceStartDate |-> Str("2001-01-10"),
                 serviceEndDate |-> Str("2005-01-09"),
                 rank |-> Str("E-4"),
                 dischargeType |-> Str("Honorable")]),
         potentialClaims |->
            Arr(<<Claim(Str("Tinnitus"), Str("Noise exposure on the flight deck"),
                        Arr(<<Str("Aviation Boatswain's Mate")>>),
                        Str("38 CFR 4.87, DC 6260"), Num(75), Str("physical"),
                        Bool(FALSE), Bool(TRUE)),
                  Claim(Str("Insomnia"), Str("Secondary to tinnitus"),
                        Arr(<<>>), Str(""), Num(0), Str("mental"),
                        Bool(TRUE), Bool(FALSE))>>),
         serviceInfo |->
            Obj([deployments |-> Arr(<<Str("USS Nimitz (2003)")>>),
                 mos |-> Arr(<<Str("ABH")>>),
                 combatExperience |-> Bool(FALSE),
                 awardsDecorations |-> Arr(<<>>),
                 incidents |-> Arr(<<>>)]),
         recommendations |->
            Obj([additionalEvidence |-> Arr(<<Str("Audiology exam")>>),
                 priorityClaims |-> Arr(<<Str("Tinnitus")>>)])])

---------------------------------------------------------------------------
(* openaiService.analyzeVeteranDocuments *)

\* What openai.chat.completions.create can do: reject, or resolve with a
\* response whose choices[0].message.content is one of these.
ExtractedText == "{veteranInfo, potentialClaims, serviceInfo, recommendations}"
ProviderContents ==
    {Str(ExtractedText), Str("{}"), Str("{\"error\": true}"), JNull,
     Str("I'm sorry, I can't help with that.")}
ProviderOutcomes ==
    {[rejected |-> TRUE, message |-> "Connection error."]}
        \cup {[rejected |-> FALSE, content |-> c] : c \in ProviderContents}

\* JSON.parse(content) on the contents above: the parsed value, or the
\* SyntaxError it throws.  JSON.parse turns its argument into a string
\* first, so a null content parses as the text "null".
JSONparse(content) ==
    LET text == IF content.type = "null" THEN "null" ELSE content.str
    IN  CASE text = ExtractedText -> [threw |-> FALSE, value |-> ExtractedAnalysis]
          [] text = "{}" -> [threw |-> FALSE, value |-> Obj(NoProps)]
          [] text = "{\"error\": true}" ->
                [threw |-> FALSE, value |-> Obj([error |-> Bool(TRUE)])]
          [] text = "null" -> [threw |-> FALSE, value |-> JNull]
          [] OTHER -> [threw |-> TRUE, message |-> "Unexpected token I in JSON"]

\* The error structure of the catch block.
ErrorStructure(message) ==
    Obj([error |-> Bool(TRUE), message |-> Str(message),
         fallbackAnalysis |-> generateFallbackAnalysis])

\* The value analyzeVeteranDocuments resolves with; it never rejects.
analyzeVeteranDocuments(outcome) ==
    IF outcome.rejected
    THEN ErrorStructure(outcome.message)
    ELSE LET parsed == JSONparse(outcome.content)
         IN  IF parsed.threw THEN ErrorStructure(parsed.message) ELSE parsed.value

---------------------------------------------------------------------------
(* documentProcessingService *)

\* extractText reads a PDF from disk (fs.readFile); for an image it only
\* builds a placeholder text, without I/O.  Every failure inside it becomes
\* text, so processDocuments never rejects.
NeedsIO(files) == \E i \in DOMAIN files : files[i].mimetype = "application/pdf"

\* A text is the sequence of the pieces it is put together from; \o appends.

\* What fs.readFile followed by pdf() can give for a PDF: its text, no text,
\* a read error, a parse error.
ReadOutcomes ==
    {[threw |-> FALSE, text |-> "DD FORM 214"],
     [threw |-> FALSE, text |-> ""],
     [threw |-> TRUE, message |-> "ENOENT: no such file or directory"],
     [threw |-> TRUE, message |-> "Invalid PDF structure"]}

\* extractFromPDF with a catch that returns nothing.
extractFromPDFSwallows(outcome) ==
    IF outcome.threw
    THEN [threw |-> FALSE, text |-> <<"undefined">>]
    ELSE [threw |-> FALSE,
          text |-> IF outcome.text = "" THEN <<"No text content found in PDF">>
                   ELSE <<outcome.text>>]

\* extractFromPDF: the text, or the error it rethrows.
extractFromPDF(outcome) ==
    IF outcome.threw
    THEN [threw |-> TRUE,
          message |-> <<"Error extracting PDF text: ", outcome.message>>]
    ELSE [threw |-> FALSE,
          text |-> IF outcome.text = "" THEN <<"No text content found in PDF">>
                   ELSE <<outcome.text>>]

\* path.basename(filePath) of a file multer stored: its stored name.
handleImageFile(file) ==
    <<"[IMAGE FILE - OCR PROCESSING REQUIRED]\n\nFile: ", file.filename,
      "\nType: ", file.mimetype, "\n\nTo properly analyze image files, ...">>

\* mimetype.startsWith('image/'), on the media types in use
IsImageType(mimetype) ==
    mimetype \in {"image/jpeg", "image/png", "image/jpg", "image/gif"}

\* extractText for a file whose read, if it is a PDF, gave `outcome`.
extractText(file, outcome) ==
    CASE file.mimetype = "application/pdf" ->
            IF extractFromPDF(outcome).threw
            THEN <<"Error extracting text: ">> \o extractFromPDF(outcome).message
            ELSE extractFromPDF(outcome).text
      [] IsImageType(file.mimetype) -> handleImageFile(file)
      [] OTHER -> <<"Error extracting text: ", "Unsupported file type: ",
                    file.mimetype>>

\* `${value}` for a documentType: a string as it is, an array joined by commas.
TemplateText(value) ==
    CASE value.type = "string" -> <<value.str>>
      [] value.type = "array" ->
            [k \in 1..(2 * Len(value.items) - 1) |->
                IF k % 2 = 1 THEN value.items[(k + 1) \div 2].str ELSE ","]
      [] OTHER -> <<value.type>>

\* The indices of the files extractText reads from disk.
PdfIndices(files) == {i \in DOMAIN files : files[i].mimetype = "application/pdf"}

\* The outcome of the read of file i among the finished reads.
OutcomeOf(reads, i) ==
    reads[CHOOSE k \in DOMAIN reads : reads[k].index = i].outcome

\* The section of file i, line 79.
Section(files, reads, i) ==
    <<"--- DOCUMENT: ", files[i].originalName, " (">>
        \o TemplateText(files[i].documentType) \o <<") ---\n">>
        \o extractText(files[i],
              IF i \in PdfIndices(files) THEN OutcomeOf(reads, i) ELSE Undefined)

\* textResults in the order the extractions finished, the files without read
\* first.
textResultsAsFinished(files, reads) ==
    LET NoRead(i) == i \notin PdfIndices(files)
        order == SelectSeq([i \in DOMAIN files |-> i], NoRead)
                    \o [k \in DOMAIN reads |-> reads[k].index]
    IN  [k \in DOMAIN files |-> Section(files, reads, order[k])]

\* textResults, line 82: Promise.all gives the results in the order of the
\* promises, which is the order of files.
textResults(files, reads) == [i \in DOMAIN files |-> Section(files, reads, i)]

\* array.join(separator), for an array of texts
RECURSIVE Join(_, _)
Join(texts, separator) ==
    IF Len(texts) = 0 THEN <<>>
    ELSE IF Len(texts) = 1 THEN texts[1]
    ELSE texts[1] \o <<separator>> \o Join(Tail(texts), separator)

\* processDocuments once every read has finished
processDocuments(files, reads) == Join(textResults(files, reads), "\n\n")

\* Promise.all over a loop that starts a file's extraction when the previous
\* one has finished.
OutstandingOneByOne(frame) ==
    LET unread == PdfIndices(uploads[frame.uploadId].files)
                     \ {frame.reads[k].index : k \in DOMAIN frame.reads}
    IN  {i \in unread : \A j \in unread : i <= j}

\* The extractions of a frame that have been started and have not finished.
\* files.map starts them all: each callback runs up to its first await.
Outstanding(frame) ==
    PdfIndices(uploads[frame.uploadId].files)
        \ {frame.reads[k].index : k \in DOMAIN frame.reads}

\* documentText of analyzeDocuments, lines 85 and 103
DocumentText(frame) ==
    processDocuments(uploads[frame.uploadId].files, frame.reads)

---------------------------------------------------------------------------
(* analyzeDocuments *)

\* The message of the TypeError `analysis.error` throws on null.
NullErrorMessage == "Cannot read properties of null (reading 'error')"

\* StoreResults with the upload bound to its first analysis only.
StoreResultsKeepFirst(frame, ret, analysis) ==
    LET uploadId == frame.uploadId
        analysisId == nextId
        analysisResult == [id |-> analysisId, uploadId |-> uploadId,
                           analysis |-> analysis, createdAt |-> Now]
        upload == IF Has(uploads[uploadId], "analysisId")
                  THEN SetField(uploads[uploadId], "status", "analyzed")
                  ELSE SetField(SetField(SetField(uploads[uploadId],
                           "status", "analyzed"),
                           "analysisId", analysisId),
                           "analyzedAt", Now)
        body == [op |-> "analyze", uploadId |-> uploadId, code |-> 200,
                 message |-> "Documents analyzed successfully",
                 analysisId |-> analysisId, frame |-> frame]
    IN  /\ analyses' = MapSet(analyses, analysisId, analysisResult)
        /\ uploads' = MapSet(uploads, uploadId, upload)
        /\ nextId' = nextId + 1
        /\ inflight' = AllSee(Without(frame), uploadId, analysisId)
        /\ last' = LET called == IF ret = Undefined THEN body
                                 ELSE SetField(body, "ret", ret)
                   IN  IF analysis = Undefined THEN called
                       ELSE SetField(called, "analysis", analysis)

\* StoreResults with the analysis stored under the upload's id instead of a
\* fresh one.
StoreResultsReuseId(frame, ret, analysis) ==
    LET uploadId == frame.uploadId
        analysisId == uploadId
        analysisResult == [id |-> analysisId, uploadId |-> uploadId,
                           analysis |-> analysis, createdAt |-> Now]
        upload == SetField(SetField(SetField(uploads[uploadId],
                      "status", "analyzed"),
                      "analysisId", analysisId),
                      "analyzedAt", Now)
        body == [op |-> "analyze", uploadId |-> uploadId, code |-> 200,
                 message |-> "Documents analyzed successfully",
                 analysisId |-> analysisId, frame |-> frame]
    IN  /\ analyses' = MapSet(analyses, analysisId, analysisResult)
        /\ uploads' = MapSet(uploads, uploadId, upload)
        /\ nextId' = nextId + 1
        /\ inflight' = AllSee(Without(frame), uploadId, analysisId)
        /\ last' = LET called == IF ret = Undefined THEN body
                                 ELSE SetField(body, "ret", ret)
                   IN  IF analysis = Undefined THEN called
                       ELSE SetField(called, "analysis", analysis)

\* StoreResults without analyses.set: the upload is bound to an id under which
\* nothing is stored.
StoreResultsForgets(frame, ret, analysis) ==
    LET uploadId == frame.uploadId
        analysisId == nextId
        upload == SetField(SetField(SetField(uploads[uploadId],
                      "status", "analyzed"),
                      "analysisId", analysisId),
                      "analyzedAt", Now)
        body == [op |-> "analyze", uploadId |-> uploadId, code |-> 200,
                 message |-> "Documents analyzed successfully",
                 analysisId |-> analysisId, frame |-> frame]
    IN  /\ analyses' = analyses
        /\ uploads' = MapSet(uploads, uploadId, upload)
        /\ nextId' = nextId + 1
        /\ inflight' = AllSee(Without(frame), uploadId, analysisId)
        /\ last' = LET called == IF ret = Undefined THEN body
                                 ELSE SetField(body, "ret", ret)
                   IN  IF analysis = Undefined THEN called
                       ELSE SetField(called, "analysis", analysis)

\* StoreResults leaving the upload's status as it was.
StoreResultsKeepsStatus(frame, ret, analysis) ==
    LET uploadId == frame.uploadId
        analysisId == nextId
        analysisResult == [id |-> analysisId, uploadId |-> uploadId,
                           analysis |-> analysis, createdAt |-> Now]
        upload == SetField(SetField(uploads[uploadId],
                      "analysisId", analysisId),
                      "analyzedAt", Now)
        body == [op |-> "analyze", uploadId |-> uploadId, code |-> 200,
                 message |-> "Documents analyzed successfully",
                 analysisId |-> analysisId, frame |-> frame]
    IN  /\ analyses' = MapSet(analyses, analysisId, analysisResult)
        /\ uploads' = MapSet(uploads, uploadId, upload)
        /\ nextId' = nextId + 1
        /\ inflight' = AllSee(Without(frame), uploadId, analysisId)
        /\ last' = LET called == IF ret = Undefined THEN body
                                 ELSE SetField(body, "ret", ret)
                   IN  IF analysis = Undefined THEN called
                       ELSE SetField(called, "analysis", analysis)

\* Lines 113-136: store the analysis, update the upload record, answer 200.
\* `upload` is the object the uploads Map holds; res.json leaves an undefined
\* analysis out of the body.  The response is recorded with the frame that
\* sent it and, when the provider was called, its value `ret`.
StoreResults(frame, ret, analysis) ==
    LET uploadId == frame.uploadId
        analysisId == nextId
        analysisResult == [id |-> analysisId, uploadId |-> uploadId,
                           analysis |-> analysis, createdAt |-> Now]
        upload == SetField(SetField(SetField(uploads[uploadId],
                      "status", "analyzed"),
                      "analysisId", analysisId),
                      "analyzedAt", Now)
        body == [op |-> "analyze", uploadId |-> uploadId, code |-> 200,
                 message |-> "Documents analyzed successfully",
                 analysisId |-> analysisId, frame |-> frame]
    IN  /\ analyses' = MapSet(analyses, analysisId, analysisResult)
        /\ uploads' = MapSet(uploads, uploadId, upload)
        /\ nextId' = nextId + 1
        /\ inflight' = AllSee(Without(frame), uploadId, analysisId)
        /\ last' = LET called == IF ret = Undefined THEN body
                                 ELSE SetField(body, "ret", ret)
                   IN  IF analysis = Undefined THEN called
                       ELSE SetField(called, "analysis", analysis)

\* The catch block storing the fallback analysis for the failed attempt.
CatchBlockStores(frame, ret, message) ==
    LET uploadId == frame.uploadId
    IN  /\ uploads' = IF uploadId \in DOMAIN uploads
                      THEN MapSet(uploads, uploadId,
                               SetField(SetField(uploads[uploadId],
                                   "status", "failed"),
                                   "error", message))
                      ELSE uploads
        /\ analyses' = MapSet(analyses, nextId,
                          [id |-> nextId, uploadId |-> uploadId,
                           analysis |-> generateFallbackAnalysis, createdAt |-> Now])
        /\ nextId' = nextId + 1
        /\ inflight' = Without(frame)
        /\ last' = [op |-> "analyze", uploadId |-> uploadId, code |-> 500,
                    error |-> "Analysis failed", message |-> message,
                    frame |-> frame, ret |-> ret]

\* The catch block answering 500 without touching the upload record.
CatchBlockAnswerOnly(frame, ret, message) ==
    LET uploadId == frame.uploadId
    IN  /\ inflight' = Without(frame)
        /\ last' = [op |-> "analyze", uploadId |-> uploadId, code |-> 500,
                    error |-> "Analysis failed", message |-> message,
                    frame |-> frame, ret |-> ret]
        /\ UNCHANGED <<uploads, analyses, nextId>>

\* The catch block also unbinding the upload's earlier analysis.
CatchBlockClears(frame, ret, message) ==
    LET uploadId == frame.uploadId
        failed == SetField(SetField(uploads[uploadId], "status", "failed"),
                           "error", message)
    IN  /\ uploads' = IF uploadId \in DOMAIN uploads
                      THEN MapSet(uploads, uploadId,
                               [k \in (DOMAIN failed) \ {"analysisId", "analyzedAt"}
                                   |-> failed[k]])
                      ELSE uploads
        /\ inflight' = Without(frame)
        /\ last' = [op |-> "analyze", uploadId |-> uploadId, code |-> 500,
                    error |-> "Analysis failed", message |-> message,
                    frame |-> frame, ret |-> ret]
        /\ UNCHANGED <<analyses, nextId>>

\* Lines 138-153, the catch block: mark the upload failed, answer 500.
CatchBlock(frame, ret, message) ==
    LET uploadId == frame.uploadId
    IN  /\ uploads' = IF uploadId \in DOMAIN uploads
                      THEN MapSet(uploads, uploadId,
                               SetField(SetField(uploads[uploadId],
                                   "status", "failed"),
                                   "error", message))
                      ELSE uploads
        /\ inflight' = Without(frame)
        /\ last' = [op |-> "analyze", uploadId |-> uploadId, code |-> 500,
                    error |-> "Analysis failed", message |-> message,
                    frame |-> frame, ret |-> ret]
        /\ UNCHANGED <<analyses, nextId>>

\* Lines 69-85: up to the await of processDocuments.  An unknown upload is
\* answered at once; otherwise the request joins those in progress.
AnalyzeStart(uploadId) ==
    /\ ~Resuming
    /\ IF uploadId \notin DOMAIN uploads
       THEN /\ last' = [op |-> "analyze", uploadId |-> uploadId, code |-> 404,
                        error |-> "Upload not found"]
            /\ UNCHANGED <<uploads, inflight>>
       ELSE /\ Cardinality(DOMAIN analyses) + BagCardinality(inflight) < MaxAnalyze
            /\ uploads' = MapSet(uploads, uploadId,
                              SetField(uploads[uploadId], "status", "analyzing"))
            /\ inflight' = inflight (+) SetToBag({Frame(uploadId,
                              IF NeedsIO(uploads[uploadId].files)
                              THEN "extracting" ELSE "resuming")})
            /\ UNCHANGED last
    /\ UNCHANGED <<analyses, nextId, useMockAI, elsewhere>>

\* The extraction of file i of a request ends: fs.readFile and pdf() gave
\* `outcome`.  When it is the last one outstanding, Promise.all resolves and
\* the handler's continuation is queued.
ReadDone(frame, i, outcome) ==
    /\ frame.pc = "extracting"
    /\ ~Resuming
    /\ i \in Outstanding(frame)
    /\ inflight' = Without(frame) (+) SetToBag({
            [frame EXCEPT !.reads = Append(@, [index |-> i, outcome |-> outcome]),
                          !.pc = IF Outstanding(frame) = {i}
                                 THEN "resuming" ELSE "extracting"]})
    /\ UNCHANGED <<uploads, analyses, nextId, useMockAI, last, elsewhere>>

\* Lines 85-103: processDocuments has resolved.  With mock data the handler
\* runs on to its end; otherwise it awaits the provider.
ExtractDone(frame) ==
    /\ frame.pc \in {"extracting", "resuming"}
    /\ Resuming => frame.pc = "resuming"
    /\ IF useMockAI
       THEN StoreResults(frame, Undefined, getMockAnalysis)
       ELSE /\ inflight' = Without(frame) (+) SetToBag({[frame EXCEPT !.pc = "provider"]})
            /\ UNCHANGED <<uploads, analyses, nextId, last>>
    /\ UNCHANGED <<useMockAI, elsewhere>>

\* ProviderReturn with the provider's error structure thrown instead of
\* replaced by its fallback analysis.
ProviderReturnThrows(frame, outcome) ==
    /\ frame.pc = "provider"
    /\ ~Resuming
    /\ LET ret == analyzeVeteranDocuments(outcome)
       IN  IF IsNullish(ret)
           THEN CatchBlock(frame, ret, NullErrorMessage)
           ELSE IF Truthy(Get(ret, "error"))
           THEN CatchBlock(frame, ret, "OpenAI analysis error")
           ELSE StoreResults(frame, ret, ret)
    /\ UNCHANGED <<useMockAI, elsewhere>>

\* Lines 103-153: the provider call has resolved with analyzeVeteranDocuments'
\* value.
ProviderReturn(frame, outcome) ==
    /\ frame.pc = "provider"
    /\ ~Resuming
    /\ LET ret == analyzeVeteranDocuments(outcome)
       IN  IF IsNullish(ret)
           THEN CatchBlock(frame, ret, NullErrorMessage)
           ELSE StoreResults(frame, ret,
                    IF Truthy(Get(ret, "error"))
                    THEN Get(ret, "fallbackAnalysis")
                    ELSE ret)
    /\ UNCHANGED <<useMockAI, elsewhere>>

---------------------------------------------------------------------------
(* getAnalysis *)

\* getAnalysis reporting 'analyzed' for whatever has an analysis.
GetAnalysisSaysAnalyzed(uploadId) ==
    /\ ~Resuming
    /\ last' =
         IF uploadId \notin DOMAIN uploads
         THEN [op |-> "getAnalysis", uploadId |-> uploadId, code |-> 404,
               error |-> "Upload not found"]
         ELSE LET upload == uploads[uploadId]
              IN  IF ~Has(upload, "analysisId")
                  THEN [op |-> "getAnalysis", uploadId |-> uploadId, code |-> 400,
                        error |-> "Analysis not yet performed for this upload",
                        status |-> upload.status]
                  ELSE IF upload.analysisId \notin DOMAIN analyses
                  THEN [op |-> "getAnalysis", uploadId |-> uploadId, code |-> 404,
                        error |-> "Analysis not found"]
                  ELSE LET analysis == analyses[upload.analysisId]
                           body == [op |-> "getAnalysis", uploadId |-> uploadId,
                                    code |-> 200,
                                    analysisId |-> upload.analysisId,
                                    status |-> "analyzed",
                                    createdAt |-> analysis.createdAt]
                       IN  IF analysis.analysis = Undefined THEN body
                           ELSE SetField(body, "analysis", analysis.analysis)
    /\ UNCHANGED <<uploads, analyses, nextId, useMockAI, elsewhere, inflight>>

\* getAnalysis treating an upload without analysisId like one whose Analysis
\* record is gone.
GetAnalysisNeedsAnalysis(uploadId) ==
    /\ ~Resuming
    /\ last' =
         IF uploadId \notin DOMAIN uploads
         THEN [op |-> "getAnalysis", uploadId |-> uploadId, code |-> 404,
               error |-> "Upload not found"]
         ELSE LET upload == uploads[uploadId]
              IN  IF \/ ~Has(upload, "analysisId")
                     \/ upload.analysisId \notin DOMAIN analyses
                  THEN [op |-> "getAnalysis", uploadId |-> uploadId, code |-> 404,
                        error |-> "Analysis not found"]
                  ELSE LET analysis == analyses[upload.analysisId]
                           body == [op |-> "getAnalysis", uploadId |-> uploadId,
                                    code |-> 200,
                                    analysisId |-> upload.analysisId,
                                    status |-> upload.status,
                                    createdAt |-> analysis.createdAt]
                       IN  IF analysis.analysis = Undefined THEN body
                           ELSE SetField(body, "analysis", analysis.analysis)
    /\ UNCHANGED <<uploads, analyses, nextId, useMockAI, elsewhere, inflight>>

\* getAnalysis stamping the upload it was asked about.
GetAnalysisMarksRead(uploadId) ==
    /\ ~Resuming
    /\ last' =
         IF uploadId \notin DOMAIN uploads
         THEN [op |-> "getAnalysis", uploadId |-> uploadId, code |-> 404,
               error |-> "Upload not found"]
         ELSE LET upload == uploads[uploadId]
              IN  IF ~Has(upload, "analysisId")
                  THEN [op |-> "getAnalysis", uploadId |-> uploadId, code |-> 400,
                        error |-> "Analysis not yet performed for this upload",
                        status |-> upload.status]
                  ELSE IF upload.analysisId \notin DOMAIN analyses
                  THEN [op |-> "getAnalysis", uploadId |-> uploadId, code |-> 404,
                        error |-> "Analysis not found"]
                  ELSE LET analysis == analyses[upload.analysisId]
                           body == [op |-> "getAnalysis", uploadId |-> uploadId,
                                    code |-> 200,
                                    analysisId |-> upload.analysisId,
                                    status |-> upload.status,
                                    createdAt |-> analysis.createdAt]
                       IN  IF analysis.analysis = Undefined THEN body
                           ELSE SetField(body, "analysis", analysis.analysis)
    /\ uploads' = IF uploadId \in DOMAIN uploads
                  THEN MapSet(uploads, uploadId,
                           SetField(uploads[uploadId], "readAt", Now))
                  ELSE uploads
    /\ UNCHANGED <<analyses, nextId, useMockAI, elsewhere, inflight>>

\* The response of getAnalysis: a function of the two stores and the id.
GetAnalysisResponse(uploadId) ==
    IF uploadId \notin DOMAIN uploads
    THEN [op |-> "getAnalysis", uploadId |-> uploadId, code |-> 404,
          error |-> "Upload not found"]
    ELSE LET upload == uploads[uploadId]
         IN  IF ~Has(upload, "analysisId")
             THEN [op |-> "getAnalysis", uploadId |-> uploadId, code |-> 400,
                   error |-> "Analysis not yet performed for this upload",
                   status |-> upload.status]
             ELSE IF upload.analysisId \notin DOMAIN analyses
             THEN [op |-> "getAnalysis", uploadId |-> uploadId, code |-> 404,
                   error |-> "Analysis not found"]
             ELSE LET analysis == analyses[upload.analysisId]
                      body == [op |-> "getAnalysis", uploadId |-> uploadId,
                               code |-> 200,
                               analysisId |-> upload.analysisId,
                               status |-> upload.status,
                               createdAt |-> analysis.createdAt]
                  IN  IF analysis.analysis = Undefined THEN body
                      ELSE SetField(body, "analysis", analysis.analysis)

GetAnalysis(uploadId) ==
    /\ ~Resuming
    /\ last' = GetAnalysisResponse(uploadId)
    /\ UNCHANGED <<uploads, analyses, nextId, useMockAI, elsewhere, inflight>>

---------------------------------------------------------------------------
(* generateForm *)

\* req.body of a generate-form request, as express.json parsed it: the
\* selections of the lifecycle specification, then those of every shape.
SelectionInputs ==
    {Obj([selectedClaims |-> Arr(<<>>)]),
     Obj([selectedClaims |-> Arr(<<Str("Tinnitus")>>)])}
FormBodyInputs ==
    {Obj(NoProps),
     Obj([selectedClaims |-> Arr(<<>>)]),
     Obj([selectedClaims |-> Str("Tinnitus")]),
     Obj([selectedClaims |-> Arr(<<Str("Tinnitus")>>)]),
     Obj([selectedClaims |-> Arr(<<Str("Insomnia"), Str("Sleep Apnea"),
                                   Str("Tinnitus"), Str("Tinnitus")>>)])}

\* The validation without its length test.
NoClaimsSelectedButEmpty(selectedClaims) ==
    \/ ~Truthy(selectedClaims)
    \/ selectedClaims.type # "array"

\* !selectedClaims || !Array.isArray(selectedClaims) || selectedClaims.length === 0
NoClaimsSelected(selectedClaims) ==
    \/ ~Truthy(selectedClaims)
    \/ selectedClaims.type # "array"
    \/ Len(selectedClaims.items) = 0

\* includes looking at the first element only.
IncludesFirst(array, value) ==
    /\ value.type \notin {"object", "array"}
    /\ array.items[1] = value

\* array.includes(value): objects are equal only to themselves.
Includes(array, value) ==
    /\ value.type \notin {"object", "array"}
    /\ \E i \in DOMAIN array.items : array.items[i] = value

\* One entry of formData.disabilities; its id is the index-th uuid after the
\* form's.  Ids of a form are not stored anywhere, so they are taken from the
\* ids not issued yet without marking them issued.
Disability(claim, index) ==
    [id |-> nextId + index,
     sequence |-> index,
     condition |-> Get(claim, "condition"),
     description |-> OrElse(Get(claim, "description"), Str("")),
     evidence |-> OrElse(Get(claim, "evidence"), Arr(<<>>)),
     cfrReference |-> OrElse(Get(claim, "cfrReference"), Str("")),
     confidenceScore |-> OrElse(Get(claim, "confidenceScore"), Num(0)),
     category |-> OrElse(Get(claim, "category"), Str("other")),
     isPrimary |-> OrElse(Get(claim, "isPrimary"), Bool(TRUE)),
     isPresumed |-> OrElse(Get(claim, "isPresumed"), Bool(FALSE)),
     dateOfOnset |-> Str(""),
     relatedMilitaryService |-> Bool(TRUE)]

\* serviceInfo?.field
OptGet(value, field) == IF IsNullish(value) THEN Undefined ELSE Get(value, field)

\* Lines 242-296, for a veteranInfo that is neither null nor undefined.
FormData(veteranInfo, selectedClaimData, serviceInfo) ==
    [formId |-> nextId,
     formType |-> "VA-21-526EZ",
     generatedDate |-> Now,
     veteran |->
        [name |-> OrElse(Get(veteranInfo, "name"), Str("")),
         serviceNumber |-> OrElse(Get(veteranInfo, "serviceNumber"), Str("")),
         ssn |-> Str(""),
         dob |-> Str(""),
         branch |-> OrElse(Get(veteranInfo, "branch"), Str("")),
         serviceStartDate |-> OrElse(Get(veteranInfo, "serviceStartDate"), Str("")),
         serviceEndDate |-> OrElse(Get(veteranInfo, "serviceEndDate"), Str("")),
         rank |-> OrElse(Get(veteranInfo, "rank"), Str("")),
         dischargeType |-> OrElse(Get(veteranInfo, "dischargeType"), Str("")),
         address |-> [street |-> Str(""), city |-> Str(""), state |-> Str(""),
                      zipCode |-> Str("")],
         phone |-> Str(""),
         email |-> Str("")],
     disabilities |->
        [i \in 1..Len(selectedClaimData) |-> Disability(selectedClaimData[i], i)],
     serviceDetails |->
        [deployments |-> OrElse(OptGet(serviceInfo, "deployments"), Arr(<<>>)),
         mos |-> OrElse(OptGet(serviceInfo, "mos"), Arr(<<>>)),
         combatExperience |->
            OrElse(OptGet(serviceInfo, "combatExperience"), Bool(FALSE)),
         awardsDecorations |->
            OrElse(OptGet(serviceInfo, "awardsDecorations"), Arr(<<>>)),
         incidents |-> OrElse(OptGet(serviceInfo, "incidents"), Arr(<<>>))]]

\* Lines 234-296 on the stored payload: the form data, or the TypeError thrown
\* on the way (destructuring null or undefined, .filter of what is no array,
\* .condition of a null candidate, .name of a missing veteranInfo).
BuildForm(payload, selectedClaims) ==
    IF IsNullish(payload)
    THEN [threw |-> TRUE,
          message |-> "Cannot destructure property 'veteranInfo' of 'analysis.analysis'"]
    ELSE LET veteranInfo == Get(payload, "veteranInfo")
             potentialClaims == Get(payload, "potentialClaims")
             serviceInfo == Get(payload, "serviceInfo")
         IN  IF IsNullish(potentialClaims)
             THEN [threw |-> TRUE,
                   message |-> "Cannot read properties of undefined (reading 'filter')"]
             ELSE IF potentialClaims.type # "array"
             THEN [threw |-> TRUE,
                   message |-> "potentialClaims.filter is not a function"]
             ELSE IF \E i \in DOMAIN potentialClaims.items :
                        IsNullish(potentialClaims.items[i])
             THEN [threw |-> TRUE,
                   message |-> "Cannot read properties of null (reading 'condition')"]
             ELSE IF IsNullish(veteranInfo)
             THEN [threw |-> TRUE,
                   message |-> "Cannot read properties of undefined (reading 'name')"]
             ELSE LET Selected(claim) ==
                          Includes(selectedClaims, Get(claim, "condition"))
                      selectedClaimData == SelectSeq(potentialClaims.items, Selected)
                  IN  [threw |-> FALSE,
                       formData |-> FormData(veteranInfo, selectedClaimData, serviceInfo)]

\* generateForm without the test of lines 220-224: reading the Analysis of
\* an upload that is missing or has none throws, and the catch answers 500.
GenerateFormUnchecked(uploadId, body) ==
    /\ ~Resuming
    /\ LET selectedClaims == Get(body, "selectedClaims")
           head == [op |-> "generateForm", uploadId |-> uploadId,
                    selectedClaims |-> selectedClaims]
       IN  last' =
             IF NoClaimsSelected(selectedClaims)
             THEN head @@ [code |-> 400, error |-> "No claims selected"]
             ELSE IF \/ uploadId \notin DOMAIN uploads
                     \/ ~Has(uploads[uploadId], "analysisId")
                     \/ uploads[uploadId].analysisId \notin DOMAIN analyses
             THEN head @@ [code |-> 500, error |-> "Form generation failed",
                           message |-> "Cannot read properties of undefined"]
             ELSE LET analysis == analyses[uploads[uploadId].analysisId]
                      built == BuildForm(analysis.analysis, selectedClaims)
                  IN  IF built.threw
                      THEN head @@ [code |-> 500, error |-> "Form generation failed",
                                    message |-> built.message]
                      ELSE head @@ [code |-> 200,
                                    message |-> "Form generated successfully",
                                    form |-> [formData |-> built.formData]]
    /\ UNCHANGED <<uploads, analyses, nextId, useMockAI, elsewhere, inflight>>

\* The response is recorded with the selection the request carried.
GenerateForm(uploadId, body) ==
    /\ ~Resuming
    /\ LET selectedClaims == Get(body, "selectedClaims")
           head == [op |-> "generateForm", uploadId |-> uploadId,
                    selectedClaims |-> selectedClaims]
       IN  last' =
             IF NoClaimsSelected(selectedClaims)
             THEN head @@ [code |-> 400, error |-> "No claims selected"]
             ELSE IF \/ uploadId \notin DOMAIN uploads
                     \/ ~Has(uploads[uploadId], "analysisId")
             THEN head @@ [code |-> 404, error |-> "Upload or analysis not found"]
             ELSE IF uploads[uploadId].analysisId \notin DOMAIN analyses
             THEN head @@ [code |-> 404, error |-> "Analysis not found"]
             ELSE LET analysis == analyses[uploads[uploadId].analysisId]
                      built == BuildForm(analysis.analysis, selectedClaims)
                  IN  IF built.threw
                      THEN head @@ [code |-> 500, error |-> "Form generation failed",
                                    message |-> built.message]
                      ELSE head @@ [code |-> 200,
                                    message |-> "Form generated successfully",
                                    form |-> [formData |-> built.formData]]
    /\ UNCHANGED <<uploads, analyses, nextId, useMockAI, elsewhere, inflight>>

---------------------------------------------------------------------------
(* openaiService.processDocumentFile *)

FilePaths == {"uploads/1-dd214.pdf", "uploads/2-xray.png"}

\* The own properties of the exported instance: the class declares methods
\* only and has no constructor; `openai` is a constant of the module.
InstanceProperties == {}

\* this.openai
ThisOpenai == IF "openai" \in InstanceProperties THEN Str("openai") ELSE Undefined

\* What openai.files.create can give: the file, or a rejection.
FilesCreateOutcomes ==
    {[rejected |-> FALSE, message |-> ""],
     [rejected |-> TRUE, message |-> "Connection error."]}

\* The frame of a call: where it is, and the provider objects it has created.
Call(filePath) ==
    [filePath |-> filePath, pc |-> "files.create",
     created |-> [files |-> {}, assistants |-> {}, vectorStores |-> {}],
     message |-> <<>>]

\* The catch of lines 319-322.
Rethrown(call, message) ==
    [call EXCEPT !.pc = "thrown",
                 !.message = <<"Document processing failed: ", message>>]

\* A call of processDocumentFile, up to its first await.
ProcessDocumentFile(filePath) ==
    /\ Len(calls) < MaxCalls
    /\ calls' = Append(calls, Call(filePath))
    /\ UNCHANGED <<controller, provider, wizard, poll>>

\* openai.files.create settles and the call runs on: line 254 evaluates
\* this.openai.beta before it calls anything.
FilesCreateReturn(k, outcome) ==
    /\ calls[k].pc = "files.create"
    /\ IF outcome.rejected
       THEN /\ calls' = [calls EXCEPT ![k] = Rethrown(@, outcome.message)]
            /\ UNCHANGED provider
       ELSE LET id == provider.issued + 1
                uploaded == [calls[k] EXCEPT !.created.files = @ \cup {id}]
            IN  /\ provider' = [provider EXCEPT !.issued = id,
                                                !.files = @ \cup {id}]
                /\ calls' = [calls EXCEPT ![k] =
                      IF ThisOpenai = Undefined
                      THEN Rethrown(uploaded,
                              "Cannot read properties of undefined (reading 'beta')")
                      ELSE [uploaded EXCEPT !.pc = "assistants.create"]]
    /\ UNCHANGED <<controller, wizard, poll>>

\* The statuses of a run, and those a run never leaves.
RunStatuses == {"queued", "in_progress", "completed", "failed", "cancelled", "expired"}
TerminalStatuses == {"completed", "failed", "cancelled", "expired"}

\* The provider's side of a run.
RunSuccessors(status) ==
    CASE status = "queued" -> {"in_progress", "failed", "cancelled", "expired"}
      [] status = "in_progress" -> {"completed", "failed", "cancelled", "expired"}
      [] OTHER -> {}

RetrieveOutcomes == {"resolved", "rejected"}

\* while (runStatus.status !== 'completed'): sleep, or go on to the messages.
WhileTest(status) == IF status # "completed" THEN "sleeping" ELSE "proceeded"

\* openai.beta.threads.runs.create resolves; line 297 asks for the run.
RunsCreateReturn ==
    /\ poll.pc = "idle"
    /\ poll' = [poll EXCEPT !.pc = "retrieve"]
    /\ UNCHANGED <<controller, provider, calls, wizard>>

\* The provider moves the run on.
RunAdvances(status) ==
    /\ poll.pc \notin {"idle", "proceeded", "thrown"}
    /\ status \in RunSuccessors(poll.run)
    /\ poll' = [poll EXCEPT !.run = status]
    /\ UNCHANGED <<controller, provider, calls, wizard>>

\* Line 297: the retrieve before the loop settles.
RetrieveFirst(outcome) ==
    /\ poll.pc = "retrieve"
    /\ poll' = IF outcome = "rejected" THEN [poll EXCEPT !.pc = "thrown"]
               ELSE [poll EXCEPT !.runStatus = poll.run, !.pc = WhileTest(poll.run)]
    /\ UNCHANGED <<controller, provider, calls, wizard>>

\* Line 300: the timer of the loop body fires; line 301 asks for the run.
TimerFires ==
    /\ poll.pc = "sleeping"
    /\ poll.polls < MaxPolls
    /\ poll' = [poll EXCEPT !.pc = "retrieveAgain", !.polls = @ + 1]
    /\ UNCHANGED <<controller, provider, calls, wizard>>

\* Lines 301-305: the retrieve of the loop body settles.
RetrieveAgain(outcome) ==
    /\ poll.pc = "retrieveAgain"
    /\ poll' = IF outcome = "rejected" THEN [poll EXCEPT !.pc = "thrown"]
               ELSE [poll EXCEPT !.runStatus = poll.run,
                                 !.pc = IF poll.run = "failed" THEN "thrown"
                                        ELSE WhileTest(poll.run)]
    /\ UNCHANGED <<controller, provider, calls, wizard>>

---------------------------------------------------------------------------
(* VetFileApp: the wizard in the browser *)

\* The files the user drops, by name, and the types the select offers.
DropInputs == {"dd214.pdf", "medical.pdf", "scan.png"}
TypeInputs == {"DD214", "Other"}

\* What the server answers to the wizard's requests: an id or a candidate
\* list, or an error.
UploadAnswers == {[ok |-> TRUE, uploadId |-> Str("upload-1")],
                  [ok |-> FALSE, error |-> Str("No files uploaded")]}
AnalyzeAnswers ==
    {[ok |-> TRUE, analysisId |-> Str("analysis-1"),
      analysis |-> Arr(<<Str("Tinnitus"), Str("Insomnia")>>)],
     [ok |-> FALSE, error |-> Str("Analysis failed")]}
FormAnswers == {[ok |-> TRUE, form |-> Str("VA-21-526EZ")],
                [ok |-> FALSE, error |-> Str("Form generation failed")]}

\* Lines 52-62: the type guessed from the file name.
getDocumentType(filename) ==
    CASE filename = "dd214.pdf" -> "DD214"
      [] filename = "medical.pdf" -> "Medical Record"
      [] OTHER -> "Unknown"

\* The names of the files listed.
Listed == {wizard.files[i].name : i \in DOMAIN wizard.files}

\* Lines 31-39: a file is dropped on the dropzone of step 1.
onDrop(name) ==
    /\ wizard.currentStep = 1
    /\ name \notin Listed
    /\ wizard' = [wizard EXCEPT !.files =
                     Append(@, [name |-> name, documentType |-> getDocumentType(name)])]
    /\ UNCHANGED <<controller, provider, calls, poll>>

\* Line 66, from the Remove button of a listed file.
removeFile(name) ==
    /\ wizard.currentStep = 1
    /\ name \in Listed
    /\ wizard' = [wizard EXCEPT !.files =
                     SelectSeq(@, LAMBDA file : file.name # name)]
    /\ UNCHANGED <<controller, provider, calls, poll>>

\* Lines 71-75, from the select of a listed file.
updateDocumentType(name, type) ==
    /\ wizard.currentStep = 1
    /\ name \in Listed
    /\ wizard' = [wizard EXCEPT !.files =
                     [i \in DOMAIN @ |->
                         IF @[i].name = name
                         THEN [@[i] EXCEPT !.documentType = type] ELSE @[i]]]
    /\ UNCHANGED <<controller, provider, calls, poll>>

\* Lines 78-96, from the button of step 1, which is disabled while loading or
\* without files: up to the await of the upload request.
uploadFiles ==
    /\ wizard.currentStep = 1
    /\ ~wizard.loading
    /\ wizard.files # <<>>
    /\ wizard' = [wizard EXCEPT !.loading = TRUE, !.error = JNull,
                                !.awaiting = "upload"]
    /\ UNCHANGED <<controller, provider, calls, poll>>

\* Lines 96-117: the upload request settles.  On success the wizard moves to
\* step 2 and analyzeDocuments (121-125) sends the analyze request.
UploadAnswered(answer) ==
    /\ wizard.awaiting = "upload"
    /\ wizard' = IF answer.ok
                 THEN [wizard EXCEPT !.uploadId = answer.uploadId,
                                     !.currentStep = 2,
                                     !.loading = TRUE,
                                     !.awaiting = "analyze"]
                 ELSE [wizard EXCEPT !.error = answer.error,
                                     !.loading = FALSE,
                                     !.awaiting = "none"]
    /\ UNCHANGED <<controller, provider, calls, poll>>

\* Lines 125-138 and 116-117: the analyze request settles.
AnalyzeAnswered(answer) ==
    /\ wizard.awaiting = "analyze"
    /\ wizard' = IF answer.ok
                 THEN [wizard EXCEPT !.analysisId = answer.analysisId,
                                     !.analysis = answer.analysis,
                                     !.currentStep = 3,
                                     !.loading = FALSE,
                                     !.awaiting = "none"]
                 ELSE [wizard EXCEPT !.error = answer.error,
                                     !.loading = FALSE,
                                     !.awaiting = "none"]
    /\ UNCHANGED <<controller, provider, calls, poll>>

\* Lines 142-148, from the checkbox of a candidate of step 3.
toggleClaimSelection(condition) ==
    /\ wizard.currentStep = 3
    /\ \E i \in DOMAIN wizard.analysis.items : wizard.analysis.items[i] = condition
    /\ wizard' = [wizard EXCEPT !.selectedClaims =
                     IF \E i \in DOMAIN @ : @[i] = condition
                     THEN SelectSeq(@, LAMBDA claim : claim # condition)
                     ELSE Append(@, condition)]
    /\ UNCHANGED <<controller, provider, calls, poll>>

\* Lines 151-160, from the button of step 3, which is disabled while loading
\* or without a selection: up to the await of the generate-form request.
generateForm ==
    /\ wizard.currentStep = 3
    /\ ~wizard.loading
    /\ wizard.selectedClaims # <<>>
    /\ wizard' = [wizard EXCEPT !.loading = TRUE, !.awaiting = "generateForm"]
    /\ UNCHANGED <<controller, provider, calls, poll>>

\* Lines 160-172: the generate-form request settles.
FormAnswered(answer) ==
    /\ wizard.awaiting = "generateForm"
    /\ wizard' = IF answer.ok
                 THEN [wizard EXCEPT !.generatedForm = answer.form,
                                     !.currentStep = 4,
                                     !.loading = FALSE,
                                     !.awaiting = "none"]
                 ELSE [wizard EXCEPT !.error = answer.error,
                                     !.loading = FALSE,
                                     !.awaiting = "none"]
    /\ UNCHANGED <<controller, provider, calls, poll>>

\* Lines 176-185, from the button of step 4.
resetApp ==
    /\ wizard.currentStep = 4
    /\ wizard' = [wizard EXCEPT !.files = <<>>, !.uploadId = JNull,
                                !.analysisId = JNull, !.analysis = JNull,
                                !.selectedClaims = <<>>, !.generatedForm = JNull,
                                !.currentStep = 1, !.error = JNull]
    /\ UNCHANGED <<controller, provider, calls, poll>>

\* Lines 188-219, renderStep: what the user can do with what is rendered.
UserActs ==
    \/ \E name \in DropInputs : onDrop(name)
    \/ \E name \in DropInputs : removeFile(name)
    \/ \E name \in DropInputs, type \in TypeInputs : updateDocumentType(name, type)
    \/ uploadFiles
    \/ \E condition \in {Str("Tinnitus"), Str("Insomnia")} :
          toggleClaimSelection(condition)
    \/ generateForm
    \/ resetApp

---------------------------------------------------------------------------
(* The server *)

\* An OpenAI account holding nothing.
NoResources == [issued |-> 0, files |-> {}, assistants |-> {}, vectorStores |-> {}]

\* processDocumentFile before its loop: the run just created, nothing observed.
NotPolling == [pc |-> "idle", run |-> "queued", runStatus |-> "none", polls |-> 0]

\* VetFileApp.jsx lines 17-25: the useState initial values, and no request
\* awaited.
InitialWizard ==
    [files |-> <<>>, uploadId |-> JNull, analysisId |-> JNull, currentStep |-> 1,
     loading |-> FALSE, error |-> JNull, analysis |-> JNull,
     selectedClaims |-> <<>>, generatedForm |-> JNull, awaiting |-> "none"]

Init ==
    /\ uploads = <<>>
    /\ analyses = <<>>
    /\ nextId = 1
    /\ useMockAI \in BOOLEAN
    /\ inflight = EmptyBag
    /\ last = Undefined
    /\ provider = NoResources
    /\ calls = <<>>
    /\ wizard = InitialWizard
    /\ poll = NotPolling

Next ==
    \/ \E files \in FilesInputs, body \in TaggedBodyInputs :
          UploadDocuments(files, body)
    \/ \E uploadId \in (DOMAIN uploads) \cup UnknownIds : AnalyzeStart(uploadId)
    \/ \E frame \in BagToSet(inflight) : ExtractDone(frame)
    \/ \E frame \in BagToSet(inflight), outcome \in ProviderOutcomes :
          ProviderReturn(frame, outcome)
    \/ \E uploadId \in (DOMAIN uploads) \cup UnknownIds : GetAnalysis(uploadId)
    \/ \E uploadId \in (DOMAIN uploads) \cup UnknownIds, body \in SelectionInputs :
          GenerateForm(uploadId, body)

Spec == Init /\ [][Next]_vars

\* The ids an upload can have: the first upload has id 1; every upload before
\* another took an id for itself and one per file, two at most, and the
\* analyses stored took one each.
IssuedIds == 1..(1 + (MaxUploads - 1) * (3 + MaxAnalyze))

\* Every extractor call and every provider call eventually returns: of the
\* requests in progress for an upload, one waiting for extraction eventually
\* runs on, and one waiting for the provider eventually does.  The
\* continuation of a returned call waits only while queued microtasks run,
\* which is never for ever.
CallsReturn ==
    \A uploadId \in IssuedIds :
        /\ SF_vars(\E frame \in BagToSet(inflight) :
                      frame.uploadId = uploadId /\ ExtractDone(frame))
        /\ SF_vars(\E frame \in BagToSet(inflight), outcome \in ProviderOutcomes :
                      frame.uploadId = uploadId /\ ProviderReturn(frame, outcome))

SpecLive == Spec /\ CallsReturn

\* The server with requests of every shape: uploads through the route with
\* files fileFilter turns away and tags per file, selections of any type.
NextRequests ==
    \/ \E picks \in UploadPicks : UploadRoute(FilesOf(picks), ApiBody(picks))
    \/ \E picks \in UploadPicks : UploadRoute(FilesOf(picks), ClientBody(picks))
    \/ \E uploadId \in (DOMAIN uploads) \cup UnknownIds : AnalyzeStart(uploadId)
    \/ \E frame \in BagToSet(inflight) : ExtractDone(frame)
    \/ \E frame \in BagToSet(inflight), outcome \in ProviderOutcomes :
          ProviderReturn(frame, outcome)
    \/ \E uploadId \in (DOMAIN uploads) \cup UnknownIds : GetAnalysis(uploadId)
    \/ \E uploadId \in (DOMAIN uploads) \cup UnknownIds, body \in FormBodyInputs :
          GenerateForm(uploadId, body)

SpecRequests == Init /\ [][NextRequests]_vars

\* The provider answering with an analysis or not at all.
ExtractProviderOutcomes ==
    {[rejected |-> TRUE, message |-> "Connection error."],
     [rejected |-> FALSE, content |-> Str(ExtractedText)],
     [rejected |-> FALSE, content |-> JNull]}

\* The analysis of uploads with the extraction of each file as a step: the
\* reads of an upload's PDFs end one by one, in any order.
NextExtract ==
    \/ \E files \in FilesExtract, body \in TaggedBodyInputs :
          UploadDocuments(files, body)
    \/ \E uploadId \in (DOMAIN uploads) \cup UnknownIds : AnalyzeStart(uploadId)
    \/ \E frame \in BagToSet(inflight), outcome \in ReadOutcomes :
          \E i \in DOMAIN uploads[frame.uploadId].files : ReadDone(frame, i, outcome)
    \/ \E frame \in BagToSet(inflight) :
          frame.pc = "resuming" /\ ExtractDone(frame)
    \/ \E frame \in BagToSet(inflight), outcome \in ExtractProviderOutcomes :
          ProviderReturn(frame, outcome)

SpecExtract == Init /\ [][NextExtract]_vars

\* The calls of processDocumentFile, as far as they get.
NextFile ==
    \/ \E filePath \in FilePaths : ProcessDocumentFile(filePath)
    \/ \E k \in DOMAIN calls, outcome \in FilesCreateOutcomes :
          FilesCreateReturn(k, outcome)

SpecFile == Init /\ [][NextFile]_vars

\* The wait-for-completion loop of processDocumentFile against a run.
NextPoll ==
    \/ RunsCreateReturn
    \/ \E status \in RunStatuses : RunAdvances(status)
    \/ \E outcome \in RetrieveOutcomes : RetrieveFirst(outcome)
    \/ TimerFires
    \/ \E outcome \in RetrieveOutcomes : RetrieveAgain(outcome)

SpecPoll == Init /\ [][NextPoll]_vars

\* The wizard: the user's actions and the server's answers.
NextWizard ==
    \/ \E name \in DropInputs : onDrop(name)
    \/ \E name \in DropInputs : removeFile(name)
    \/ \E name \in DropInputs, type \in TypeInputs : updateDocumentType(name, type)
    \/ uploadFiles
    \/ \E answer \in UploadAnswers : UploadAnswered(answer)
    \/ \E answer \in AnalyzeAnswers : AnalyzeAnswered(answer)
    \/ \E condition \in {Str("Tinnitus"), Str("Insomnia")} :
          toggleClaimSelection(condition)
    \/ generateForm
    \/ \E answer \in FormAnswers : FormAnswered(answer)
    \/ resetApp

SpecWizard == Init /\ [][NextWizard]_vars

---------------------------------------------------------------------------
(* Vocabulary of the properties *)

\* The latest response is one of handler `op`.
IsResponse(op) == Has(last, "op") /\ last.op = op

\* The latest response is a successful analyze.
AnalyzeSucceeded == IsResponse("analyze") /\ last.code = 200

\* The analyses stored for an upload: one per analyze of it that succeeded.
AnalysesOf(uploadId) == {a \in DOMAIN analyses : analyses[a].uploadId = uploadId}

\* The frames of the analyze requests in progress for an upload.
FramesOf(uploadId) == {f \in BagToSet(inflight) : f.uploadId = uploadId}

\* This step ends an analyze request; last' is its response.
AnalyzeEnds == BagCardinality(inflight') = BagCardinality(inflight) - 1

\* The payload of a response body; res.json drops an undefined one.
PayloadOf(resp) == IF Has(resp, "analysis") THEN resp.analysis ELSE Undefined

\* The provider's error sentinel: error set, fallback analysis bundled.
IsErrorSentinel(ret) ==
    /\ ret.type = "object"
    /\ Truthy(Get(ret, "error"))
    /\ Has(ret.props, "fallbackAnalysis")

\* A payload form generation can work on.
WellFormed(payload) ==
    /\ payload.type = "object"
    /\ Get(payload, "veteranInfo").type = "object"
    /\ Get(payload, "potentialClaims").type = "array"
    /\ Get(payload, "serviceInfo").type = "object"

---------------------------------------------------------------------------
(* The properties *)

\* C1: in every reachable state an Upload has analysisId set if and only if
\* its status is 'analyzed'.
C1_AnalysisIdIffAnalyzed ==
    \A u \in DOMAIN uploads :
        Has(uploads[u], "analysisId") <=> uploads[u].status = "analyzed"

\* C2: every change of an Upload's status is uploaded -> analyzing,
\* analyzing -> analyzed, analyzing -> failed, or a restart into analyzing,
\* for every interleaving of analyze requests on the upload.
StatusChanges ==
    {<<"uploaded", "analyzing">>, <<"analyzing", "analyzed">>,
     <<"analyzing", "failed">>, <<"analyzed", "analyzing">>,
     <<"failed", "analyzing">>}
C2_StatusChanges ==
    [][\A u \in DOMAIN uploads :
          uploads'[u].status # uploads[u].status
              => <<uploads[u].status, uploads'[u].status>> \in StatusChanges]_vars

\* C3: when two analyze requests for one upload overlap and both succeed, two
\* distinct Analysis records are stored and, both having completed, the
\* Upload's analysisId is the id written by the one that completed last.
C3_OverlapLastWriteWins ==
    (AnalyzeSucceeded /\ last.frame.saw # {})
        => /\ last.analysisId \notin last.frame.saw
           /\ last.frame.saw \cup {last.analysisId} \subseteq AnalysesOf(last.uploadId)
           /\ uploads[last.uploadId].analysisId = last.analysisId
C3_Witness == AnalyzeSucceeded /\ last.frame.saw # {}

\* C4: two successful analyze requests run one after the other on an upload
\* return two distinct Analysis ids, and after each the Upload's analysisId
\* is the id the most recent one returned.
C4_SequentialLastWriteWins ==
    AnalyzeSucceeded
        => /\ last.analysisId \notin last.frame.prior
           /\ last.frame.prior \subseteq DOMAIN analyses
           /\ last.analysisId \in DOMAIN analyses
           /\ uploads[last.uploadId].analysisId = last.analysisId
C4_Witness == AnalyzeSucceeded /\ last.frame.prior # {}

Settled(uploadId) ==
    FramesOf(uploadId) = {} /\ ~Has(uploads[uploadId], "error")

C6_AnalysesGrowByOne ==
    [][/\ \A a \in DOMAIN analyses :
             a \in DOMAIN analyses' /\ analyses'[a] = analyses[a]
       /\ IF AnalyzeEnds /\ last'.code = 200
          THEN /\ DOMAIN analyses' = DOMAIN analyses \cup {last'.analysisId}
               /\ last'.analysisId \notin DOMAIN analyses
               /\ analyses'[last'.analysisId].uploadId = last'.uploadId
          ELSE DOMAIN analyses' = DOMAIN analyses]_vars
C6_Witness ==
    /\ IsResponse("analyze")
    /\ last.code = 500
    /\ Cardinality(DOMAIN analyses) = 1

\* C7: when the provider returns its error sentinel, analyze still succeeds:
\* the bundled fallback payload is stored as the new Analysis and returned,
\* and the Upload ends with status 'analyzed'.
C7_FallbackOnProviderError ==
    [][(AnalyzeEnds /\ Has(last', "ret") /\ IsErrorSentinel(last'.ret))
          => /\ last'.code = 200
             /\ PayloadOf(last') = generateFallbackAnalysis
             /\ last'.analysisId \notin DOMAIN analyses
             /\ analyses'[last'.analysisId].analysis = generateFallbackAnalysis
             /\ uploads'[last'.uploadId].status = "analyzed"
             /\ uploads'[last'.uploadId].analysisId = last'.analysisId]_vars
C7_Witness ==
    AnalyzeSucceeded /\ Has(last, "ret") /\ IsErrorSentinel(last.ret)

\* C8: whatever the provider returns, every stored Analysis has a well-formed
\* payload, so generate-form with a non-empty selection never ends in a
\* server error.
C8_FormNeverFails ==
    /\ \A a \in DOMAIN analyses : WellFormed(analyses[a].analysis)
    /\ IsResponse("generateForm") => last.code # 500

\* C9: when analyze of an existing upload throws (the provider's value is
\* null, so reading its error property throws), the Upload becomes 'failed',
\* its error holds the exception's message, and the caller gets a 500.
C9_FailureRecorded ==
    [][(AnalyzeEnds /\ Has(last', "ret") /\ IsNullish(last'.ret))
          => /\ last'.code = 500
             /\ last'.message = NullErrorMessage
             /\ uploads'[last'.uploadId].status = "failed"
             /\ uploads'[last'.uploadId].error = NullErrorMessage
             /\ analyses' = analyses]_vars
C9_Witness ==
    /\ IsResponse("analyze")
    /\ last.code = 500
    /\ uploads[last.uploadId].status = "failed"

\* C10: in every reachable state an Upload has an error only if its status is
\* 'failed'.
C10_ErrorOnlyWhenFailed ==
    \A u \in DOMAIN uploads :
        Has(uploads[u], "error") => uploads[u].status = "failed"

\* No analyze request was ever made for the upload: none is in progress, none
\* has stored an analysis, none has failed.
NeverAnalyzed(uploadId) ==
    /\ FramesOf(uploadId) = {}
    /\ AnalysesOf(uploadId) = {}
    /\ ~Has(uploads[uploadId], "error")

\* C11: get_analysis for an existing Upload on which analyze was never invoked
\* fails with the not-ready error (400) and reports status 'uploaded'.
C11_NotReadyBeforeAnalyze ==
    (/\ IsResponse("getAnalysis")
     /\ last.uploadId \in DOMAIN uploads
     /\ NeverAnalyzed(last.uploadId))
        => /\ last.code = 400
           /\ last.error = "Analysis not yet performed for this upload"
           /\ last.status = "uploaded"
C11_Witness ==
    /\ IsResponse("getAnalysis")
    /\ last.uploadId \in DOMAIN uploads
    /\ NeverAnalyzed(last.uploadId)
    /\ last.code = 400

\* C12: get_analysis and generate-form never modify the uploads or analyses
\* stores, whatever their outcome; so a get_analysis repeated for the same
\* upload with no request in between returns the identical response.
C12_ReadsChangeNothing ==
    [][(/\ last' # last
        /\ Has(last', "op")
        /\ last'.op \in {"getAnalysis", "generateForm"})
          => /\ uploads' = uploads
             /\ analyses' = analyses
             /\ \A uploadId \in (DOMAIN uploads) \cup UnknownIds :
                    (last'.op = "getAnalysis" /\ last'.uploadId = uploadId)
                        => GetAnalysisResponse(uploadId)' = last']_vars
C12_Witness ==
    /\ IsResponse("getAnalysis")
    /\ last.code = 200
    /\ last.status = "analyzed"
    /\ Cardinality(AnalysesOf(last.uploadId)) = 1

\* The selection of a generate-form request is a non-empty array.
NonEmptySelection(selectedClaims) ==
    selectedClaims.type = "array" /\ selectedClaims.items # <<>>

\* The candidates of a payload whose condition is one of the selected, in the
\* payload's order.
Matching(payload, selectedClaims) ==
    LET Chosen(claim) ==
            \E j \in DOMAIN selectedClaims.items :
                selectedClaims.items[j] = Get(claim, "condition")
    IN  SelectSeq(Get(payload, "potentialClaims").items, Chosen)

\* C13: for a stored analysis and a non-empty selection, the disabilities of
\* the generated form are exactly the analysis's candidates whose condition is
\* in the selection (exact match), in the analysis's order and numbered 1..n;
\* selected conditions matching no candidate are left out without error and a
\* condition selected twice appears once.
C13_FormFiltersCandidates ==
    [][\A u \in DOMAIN uploads :
          (/\ last' # last
           /\ Has(last', "op") /\ last'.op = "generateForm"
           /\ last'.uploadId = u
           /\ NonEmptySelection(last'.selectedClaims)
           /\ Has(uploads[u], "analysisId"))
             => LET payload == analyses[uploads[u].analysisId].analysis
                    expected == Matching(payload, last'.selectedClaims)
                    disabilities == last'.form.formData.disabilities
                IN  /\ WellFormed(payload) => last'.code = 200
                    /\ last'.code = 200 =>
                         /\ Len(disabilities) = Len(expected)
                         /\ \A i \in DOMAIN disabilities :
                              /\ disabilities[i].sequence = i
                              /\ disabilities[i].condition
                                    = Get(expected[i], "condition")
                              /\ disabilities[i].description
                                    = Get(expected[i], "description")]_vars
C13_Witness ==
    /\ IsResponse("generateForm")
    /\ last.code = 200
    /\ Len(last.selectedClaims.items) = 4
    /\ Len(last.form.formData.disabilities) = 2
    /\ last.form.formData.disabilities[1].condition = Str("Tinnitus")

\* C14: a generate-form request whose selectedClaims is empty, missing or not
\* an array fails with the validation error (400) in every state: for an
\* unknown uploadId, for an upload never analyzed, while analyzing, after a
\* failure and after an analysis alike.
C14_EmptySelectionRejected ==
    (IsResponse("generateForm") /\ ~NonEmptySelection(last.selectedClaims))
        => last.code = 400 /\ last.error = "No claims selected"
C14_Witness ==
    /\ IsResponse("generateForm")
    /\ last.selectedClaims.type = "string"
    /\ last.code = 400
    /\ last.uploadId \in DOMAIN uploads
    /\ uploads[last.uploadId].status = "failed"
    /\ Has(uploads[last.uploadId], "analysisId")

\* C15: a generate-form request with a non-empty selection for an uploadId
\* that is unknown, or whose Upload has no analysisId because it was never
\* analyzed, fails with not-found (404), never with a server error.
C15_FormWithoutAnalysisNotFound ==
    (/\ IsResponse("generateForm")
     /\ NonEmptySelection(last.selectedClaims)
     /\ \/ last.uploadId \notin DOMAIN uploads
        \/ ~Has(uploads[last.uploadId], "analysisId"))
        => last.code = 404 /\ last.error = "Upload or analysis not found"
C15_Witness ==
    /\ IsResponse("generateForm")
    /\ last.code = 404
    /\ last.uploadId \in DOMAIN uploads
    /\ uploads[last.uploadId].status = "uploaded"

\* The upload requests callers make: files with req.body in either encoding.
UploadRequests ==
    {[files |-> FilesOf(picks), body |-> ApiBody(picks), picks |-> picks] :
        picks \in UploadPicks}
    \cup {[files |-> FilesOf(picks), body |-> ClientBody(picks), picks |-> picks] :
            picks \in UploadPicks}

\* The upload requests of the lifecycle specification.
LifecycleUploads ==
    {[files |-> files, body |-> body] :
        files \in FilesInputs, body \in TaggedBodyInputs}

\* Every file of a request passes fileFilter.
Accepted(files) == \A i \in DOMAIN files : files[i].mimetype \in allowedTypes

\* C16: every upload request with at least one accepted file succeeds and
\* stores a new Upload under a fresh identifier, with status 'uploaded', no
\* analysisId and exactly one FileRecord per input file, in input order.
C16_UploadStored ==
    [][\A req \in UploadRequests \cup LifecycleUploads :
          (/\ UploadRoute(req.files, req.body)
           /\ Len(req.files) > 0
           /\ Accepted(req.files))
             => /\ last'.op = "upload" /\ last'.code = 200
                /\ LET id == last'.uploadId
                   IN  /\ id \notin DOMAIN uploads
                       /\ id >= nextId
                       /\ DOMAIN uploads' = DOMAIN uploads \cup {id}
                       /\ \A u \in DOMAIN uploads : uploads'[u] = uploads[u]
                       /\ uploads'[id].id = id
                       /\ uploads'[id].status = "uploaded"
                       /\ ~Has(uploads'[id], "analysisId")
                       /\ Len(uploads'[id].files) = Len(req.files)
                       /\ \A i \in DOMAIN req.files :
                            LET record == uploads'[id].files[i]
                                file == req.files[i]
                            IN  /\ record.originalName = file.originalname
                                /\ record.filename = file.filename
                                /\ record.path = file.path
                                /\ record.size = file.size
                                /\ record.mimetype = file.mimetype
                                /\ record.id >= nextId /\ record.id # id
                                /\ \A j \in DOMAIN req.files :
                                     j # i => uploads'[id].files[j].id # record.id]_vars
C16_Witness ==
    /\ IsResponse("upload")
    /\ last.code = 200
    /\ Len(uploads[last.uploadId].files) = 2
    /\ uploads[last.uploadId].files[2].mimetype = "application/pdf"

\* C17: create_upload with zero files fails with the validation error (400)
\* and leaves the uploads store unchanged, so in every reachable state every
\* Upload in the store has a non-empty files sequence.
C17_NoEmptyUpload ==
    /\ [](\A u \in DOMAIN uploads : Len(uploads[u].files) > 0)
    /\ [][\A body \in TaggedBodyInputs :
             UploadDocuments(<<>>, body)
                => /\ last'.op = "upload"
                   /\ last'.code = 400
                   /\ last'.error = "No files uploaded"
                   /\ uploads' = uploads]_vars
C17_Witness ==
    /\ IsResponse("upload")
    /\ last.code = 400
    /\ uploads # <<>>

\* C18: an upload request containing a file whose media type is outside the
\* allowed set (pdf, jpeg, png) is answered with HTTP 400 and creates no
\* Upload.
C18_InvalidTypeIs400 ==
    [][\A req \in UploadRequests :
          (UploadRoute(req.files, req.body) /\ ~Accepted(req.files))
             => /\ last'.op = "upload"
                /\ last'.code = 400
                /\ uploads' = uploads]_vars

\* The tag a caller supplied for a file, 'unknown' when none.
SuppliedTag(pick) ==
    IF Has(pick, "documentType") THEN Str(pick.documentType) ELSE Str("unknown")

\* C19: each FileRecord create_upload makes carries the tag the caller
\* supplied for that file, 'unknown' when none was supplied for it; with
\* several files tagged differently each record gets its own file's tag.
C19_TagPerFile ==
    [][\A req \in UploadRequests :
          (/\ UploadRoute(req.files, req.body)
           /\ Len(req.files) > 0
           /\ Accepted(req.files))
             => \A i \in DOMAIN req.picks :
                   uploads'[last'.uploadId].files[i].documentType
                      = SuppliedTag(req.picks[i])]_vars

\* C20: in every reachable state, whenever an Upload has analysisId set, the
\* analyses store holds a record under that id whose uploadId is this
\* Upload's id; so get_analysis and generate-form never answer 'Analysis not
\* found', overlapping analyze requests included.
C20_AnalysisRecordExists ==
    /\ \A u \in DOMAIN uploads :
          Has(uploads[u], "analysisId")
             => /\ uploads[u].analysisId \in DOMAIN analyses
                /\ analyses[uploads[u].analysisId].id = uploads[u].analysisId
                /\ analyses[uploads[u].analysisId].uploadId = u
    /\ (IsResponse("getAnalysis") \/ IsResponse("generateForm"))
          => ~(Has(last, "error") /\ last.error = "Analysis not found")
C20_Witness ==
    /\ IsResponse("getAnalysis")
    /\ last.code = 200
    /\ Cardinality(AnalysesOf(last.uploadId)) = 2
    /\ FramesOf(last.uploadId) = {}

\* The files of the upload a frame works on.
FilesOfFrame(frame) == uploads[frame.uploadId].files

\* The frames whose extraction is complete.
Extracted == {f \in BagToSet(inflight) : f.pc \in {"resuming", "provider"}}

\* The indices of the reads a frame has finished.
ReadIndices(frame) == {frame.reads[k].index : k \in DOMAIN frame.reads}

\* The heading of a file's section.
Heading(file) ==
    <<"--- DOCUMENT: ", file.originalName, " (", file.documentType.str, ") ---\n">>

\* The text of a file whose extraction met no failure.
TextWhenFine(file, outcome) ==
    IF file.mimetype = "application/pdf"
    THEN IF outcome.text = "" THEN <<"No text content found in PDF">>
         ELSE <<outcome.text>>
    ELSE handleImageFile(file)

C22_OneAtATime ==
    \A f \in BagToSet(inflight) : Cardinality(Outstanding(f)) <= 1

\* C22, amended: within one analyze operation the extractor calls are all
\* made at the start, one per file: the extraction of a file does not wait
\* for the previous file's, so the extractions of all the upload's files can
\* be outstanding together and may finish in any order; no file is extracted
\* twice.
C22_ExtractionsOverlap ==
    \A f \in BagToSet(inflight) :
        LET unread == PdfIndices(FilesOfFrame(f)) \ ReadIndices(f)
        IN  /\ Cardinality(ReadIndices(f)) = Len(f.reads)
            /\ ReadIndices(f) \subseteq PdfIndices(FilesOfFrame(f))
            /\ (f.pc = "extracting" /\ ~Resuming)
                  => /\ unread # {}
                     /\ \A i \in unread, outcome \in ReadOutcomes :
                           ENABLED ReadDone(f, i, outcome)
C22_Witness ==
    \E f \in BagToSet(inflight) :
        /\ f.pc = "extracting"
        /\ Len(f.reads) = 1
        /\ f.reads[1].index = 3

\* The sections of the files from the i-th on, in file order, each after the
\* first preceded by the separator.
RECURSIVE InFileOrder(_, _, _)
InFileOrder(files, reads, i) ==
    IF i > Len(files) THEN <<>>
    ELSE (IF i > 1 THEN <<"\n\n">> ELSE <<>>)
            \o Section(files, reads, i) \o InFileOrder(files, reads, i + 1)

\* C23: the combined text handed to the provider contains one headed section
\* per file, in the Upload's original file order, whatever order the
\* extractions complete in.
C23_SectionsInFileOrder ==
    \A f \in Extracted :
        /\ DocumentText(f) = InFileOrder(FilesOfFrame(f), f.reads, 1)
        /\ \A i \in DOMAIN FilesOfFrame(f) :
              SubSeq(textResults(FilesOfFrame(f), f.reads)[i], 1, 2)
                 = <<"--- DOCUMENT: ", FilesOfFrame(f)[i].originalName>>
C23_Witness ==
    \E f \in BagToSet(inflight) :
        /\ f.pc = "provider"
        /\ Len(f.reads) = 2
        /\ f.reads[1].index = 3
        /\ f.reads[2].index = 1

\* The calls of processDocumentFile that have finished, by return or throw.
FinishedCalls == {k \in DOMAIN calls : calls[k].pc \in {"returned", "thrown"}}

\* C24: processDocumentFile tears down the provider resources it created:
\* whenever it finishes, by returning or by throwing, every uploaded file,
\* assistant and vector store it created has been deleted.
C24_CreatedResourcesDeleted ==
    \A k \in FinishedCalls :
        /\ calls[k].created.files \cap provider.files = {}
        /\ calls[k].created.assistants \cap provider.assistants = {}
        /\ calls[k].created.vectorStores \cap provider.vectorStores = {}

C25_FailureKeepsEarlierAnalysis ==
    [][\A u \in DOMAIN uploads :
          (AnalyzeEnds /\ last'.code = 500 /\ last'.uploadId = u)
             => /\ analyses' = analyses
                /\ nextId' = nextId
                /\ DOMAIN uploads' = DOMAIN uploads
                /\ \A other \in (DOMAIN uploads) \ {u} : uploads'[other] = uploads[other]
                /\ (DOMAIN uploads'[u]) \ {"status", "error"}
                      = (DOMAIN uploads[u]) \ {"status", "error"}
                /\ \A field \in (DOMAIN uploads[u]) \ {"status", "error"} :
                      uploads'[u][field] = uploads[u][field]
                /\ Has(uploads[u], "analysisId")
                      => /\ GetAnalysisResponse(u)'.code = 200
                         /\ GetAnalysisResponse(u)'.analysisId = uploads[u].analysisId
                         /\ PayloadOf(GetAnalysisResponse(u)')
                               = PayloadOf(GetAnalysisResponse(u))]_vars
C25_Witness ==
    /\ IsResponse("analyze")
    /\ last.code = 500
    /\ last.uploadId \in DOMAIN uploads
    /\ Has(uploads[last.uploadId], "analysisId")
    /\ uploads[last.uploadId].status = "failed"
    /\ GetAnalysisResponse(last.uploadId).code = 200

\* C26: every successful (200) get_analysis response reports status
\* 'analyzed'; no payload is returned while the Upload's status is 'analyzing'
\* or 'failed'.
C26_PayloadOnlyWhenAnalyzed ==
    /\ (IsResponse("getAnalysis") /\ last.code = 200) => last.status = "analyzed"
    /\ \A u \in DOMAIN uploads :
          uploads[u].status \in {"analyzing", "failed"}
             => GetAnalysisResponse(u).code # 200

\* The status of an upload, "none" while it does not exist.
StatusOf(uploadId) ==
    IF uploadId \in DOMAIN uploads THEN uploads[uploadId].status ELSE "none"

\* This step is the response to an analyze request for uploadId.
RespondsFor(uploadId) == AnalyzeEnds /\ last'.uploadId = uploadId

CarriedFields ==
    {"condition", "description", "evidence", "cfrReference", "confidenceScore",
     "category", "isPresumed", "isPrimary"}
DefaultOf(field) ==
    CASE field = "condition" -> Undefined
      [] field = "description" -> Str("")
      [] field = "evidence" -> Arr(<<>>)
      [] field = "cfrReference" -> Str("")
      [] field = "confidenceScore" -> Num(0)
      [] field = "category" -> Str("other")
      [] field = "isPresumed" -> Bool(FALSE)
      [] field = "isPrimary" -> Bool(TRUE)

\* C28: each disability entry of a generated form carries the selected
\* candidate's own values: condition, description, evidence, cfrReference,
\* confidenceScore, category, isPresumed and isPrimary equal the candidate's
\* fields, a default standing in only for a field the candidate lacks; a
\* candidate with isPrimary false yields an entry with isPrimary false.
C28_CandidateValuesCarried ==
    [][\A u \in DOMAIN uploads :
          (/\ last' # last
           /\ Has(last', "op") /\ last'.op = "generateForm"
           /\ last'.uploadId = u
           /\ last'.code = 200)
             => LET payload == analyses[uploads[u].analysisId].analysis
                    expected == Matching(payload, last'.selectedClaims)
                    disabilities == last'.form.formData.disabilities
                IN  \A i \in DOMAIN disabilities, field \in CarriedFields :
                        disabilities[i][field] =
                           IF IsNullish(Get(expected[i], field))
                           THEN DefaultOf(field)
                           ELSE Get(expected[i], field)]_vars

\* C30: the client wizard has no dead-end state: in every reachable state with
\* no request in flight some user action is available that changes the
\* wizard's state; in particular after the automatically started analyze
\* request has failed (step 2, error shown) the user can go on.
C30_NoDeadEnd ==
    wizard.awaiting = "none" => ENABLED <<UserActs>>_vars

=============================================================================
